---- MODULE Spec2Model ----
(***************************************************************************)
(* A model of the yatima kernel: the content-addressed constant store      *)
(* (src/yatima-rs/src/constant.rs) and the lazy evaluator                  *)
(* (src/yatima-rs/src/typechecker/evaluation.rs).                          *)
(*                                                                         *)
(* The store part has the Env caches as its state and one action per       *)
(* public operation of Const (cid, store, pretty).  The evaluator part has *)
(* the heap of thunk cells as its state and one action per public          *)
(* function (suspend, force, eval, apply_const, read_back); the recursive  *)
(* functions are RECURSIVE operators that thread the heap.                 *)
(***************************************************************************)
EXTENDS Integers, Sequences, FiniteSets, TLC

VARIABLES
  env,      \* constant.rs: the Env the Const methods take (its four caches)
  call,     \* the last operation called and its arguments
  ret,      \* what the last operation returned
  heap,     \* evaluation.rs: every ThunkPtr cell allocated so far
  aborted   \* TRUE once a panic has ended the process

vars == <<env, call, ret, heap, aborted>>

(***************************************************************************)
(* Bounds of the model.                                                    *)
(***************************************************************************)
MaxConsts == 2
MaxHeap == 1
Fuel == 12

(***************************************************************************)
(*                     PART 1: constant.rs                                 *)
(***************************************************************************)

\* Names the elaborator may choose (name::Name).
Names == {"a", "b"}

\* Level-parameter lists (Vec<Name>): same length, different names.
LvlLists == {<<"u">>, <<"v">>}

\* Identifiers of stored expressions (environment::ExprCid): the pair of an
\* anon and a meta digest, produced by Expr::store.
ExprCid(n) == [anon |-> <<"ExprAnonCid", n>>, meta |-> <<"ExprMetaCid", n>>]

T1 == ExprCid(1)
T2 == ExprCid(2)

ExprCids == {T1, T2}

\* Code::Sha3_256.digest(&bytes): a collision-free digest is the bytes it
\* was computed from, tagged with the hash function (multihash).
Sha3_256(bytes) == <<"Sha3_256", bytes>>

\* to_ipld + DagCborCodec.encode of a ConstAnon: the variant, then the
\* fields in declaration order.
EncodeAnon(a) ==
  CASE a.kind = "Axiom" -> <<0, a.lvl, a.typ, a.safe>>
    [] a.kind = "Theorem" -> <<1, a.lvl, a.typ, a.expr>>
    [] a.kind = "Opaque" -> <<2, a.lvl, a.typ, a.expr, a.safe>>
    [] a.kind = "Definition" -> <<3, a.lvl, a.typ, a.expr, a.safe>>
    [] a.kind = "Inductive" ->
         <<4, a.lvl, a.typ, a.params, a.indices, a.ctors, a.recr, a.safe,
           a.refl, a.nest>>
    [] a.kind = "Constructor" ->
         <<5, a.name, a.lvl, a.ind, a.typ, a.param, a.field, a.safe>>
    [] a.kind = "Recursor" ->
         <<6, a.lvl, a.ind, a.typ, a.params, a.indices, a.motives, a.minors,
           a.rules, a.k, a.safe>>
    [] a.kind = "Quotient" -> <<7, a.qkind>>

\* to_ipld + DagCborCodec.encode of a ConstMeta.
EncodeMeta(m) ==
  CASE m.kind = "Axiom" -> <<0, m.name, m.lvl, m.typ>>
    [] m.kind = "Theorem" -> <<1, m.name, m.lvl, m.typ, m.expr>>
    [] m.kind = "Opaque" -> <<2, m.name, m.lvl, m.typ, m.expr>>
    [] m.kind = "Definition" -> <<3, m.name, m.lvl, m.typ, m.expr>>
    [] m.kind = "Inductive" -> <<4, m.name, m.lvl, m.typ, m.ctors>>
    [] m.kind = "Constructor" -> <<5, m.lvl, m.ind, m.typ>>
    [] m.kind = "Recursor" -> <<6, m.lvl, m.ind, m.typ, m.rules>>
    [] m.kind = "Quotient" -> <<7>>

\* ConstAnon::cid
ConstAnon_cid(a) == Sha3_256(EncodeAnon(a))

\* ConstMeta::cid
ConstMeta_cid(m) == Sha3_256(EncodeMeta(m))

\* Env::insert_*: insert under the identifier if absent.
MapInsert(map, k, v) == IF k \in DOMAIN map THEN map ELSE map @@ (k :> v)

\* ConstAnon::store
ConstAnon_store(a, e) ==
  [cid |-> ConstAnon_cid(a),
   env |-> [e EXCEPT !.const_anon = MapInsert(@, ConstAnon_cid(a), a)]]

\* ConstMeta::store
ConstMeta_store(m, e) ==
  [cid |-> ConstMeta_cid(m),
   env |-> [e EXCEPT !.const_meta = MapInsert(@, ConstMeta_cid(m), m)]]

\* The ConstAnon that Const::cid builds from a Const.
AnonOf(c) ==
  CASE c.kind = "Axiom" ->
         [kind |-> "Axiom", lvl |-> Len(c.lvl), typ |-> c.typ.anon,
          safe |-> c.safe]
    [] c.kind = "Theorem" ->
         [kind |-> "Theorem", lvl |-> Len(c.lvl), typ |-> c.typ.anon,
          expr |-> c.expr.anon]
    [] c.kind = "Opaque" ->
         [kind |-> "Opaque", lvl |-> Len(c.lvl), typ |-> c.typ.anon,
          expr |-> c.expr.anon, safe |-> c.safe]
    [] c.kind = "Definition" ->
         [kind |-> "Definition", lvl |-> Len(c.lvl), typ |-> c.typ.anon,
          expr |-> c.expr.anon, safe |-> c.safe]
    [] c.kind = "Inductive" ->
         [kind |-> "Inductive", lvl |-> Len(c.lvl), typ |-> c.typ.anon,
          params |-> c.params, indices |-> c.indices,
          ctors |-> [i \in DOMAIN c.ctors |->
                       <<c.ctors[i][1], c.ctors[i][2].anon>>],
          recr |-> c.recr, safe |-> c.safe, refl |-> c.refl,
          nest |-> c.nest]
    [] c.kind = "Constructor" ->
         [kind |-> "Constructor", name |-> c.name, lvl |-> Len(c.lvl),
          ind |-> c.ind.anon, typ |-> c.typ.anon, param |-> c.param,
          field |-> c.field, safe |-> c.safe]
    [] c.kind = "Recursor" ->
         [kind |-> "Recursor", lvl |-> Len(c.lvl), ind |-> c.ind.anon,
          typ |-> c.typ.anon, params |-> c.params, indices |-> c.indices,
          motives |-> c.motives, minors |-> c.minors,
          rules |-> [i \in DOMAIN c.rules |->
                       <<c.rules[i][1].anon, c.rules[i][2],
                         c.rules[i][3].anon>>],
          k |-> c.k, safe |-> c.safe]
    [] c.kind = "Quotient" -> [kind |-> "Quotient", qkind |-> c.qkind]

\* The ConstMeta that Const::cid builds from a Const.
MetaOf(c) ==
  CASE c.kind = "Axiom" ->
         [kind |-> "Axiom", name |-> c.name, lvl |-> c.lvl,
          typ |-> c.typ.meta]
    [] c.kind = "Theorem" ->
         [kind |-> "Theorem", name |-> c.name, lvl |-> c.lvl,
          typ |-> c.typ.meta, expr |-> c.expr.meta]
    [] c.kind = "Opaque" ->
         [kind |-> "Opaque", name |-> c.name, lvl |-> c.lvl,
          typ |-> c.typ.meta, expr |-> c.expr.meta]
    [] c.kind = "Definition" ->
         [kind |-> "Definition", name |-> c.name, lvl |-> c.lvl,
          typ |-> c.typ.meta, expr |-> c.expr.meta]
    [] c.kind = "Inductive" ->
         [kind |-> "Inductive", name |-> c.name, lvl |-> c.lvl,
          typ |-> c.typ.meta,
          ctors |-> [i \in DOMAIN c.ctors |-> c.ctors[i][2].meta]]
    [] c.kind = "Constructor" ->
         [kind |-> "Constructor", lvl |-> c.lvl, ind |-> c.ind.meta,
          typ |-> c.typ.meta]
    [] c.kind = "Recursor" ->
         [kind |-> "Recursor", lvl |-> c.lvl, ind |-> c.ind.meta,
          typ |-> c.typ.meta,
          rules |-> [i \in DOMAIN c.rules |->
                       <<c.rules[i][1].meta, c.rules[i][3].meta>>]]
    [] c.kind = "Quotient" -> [kind |-> "Quotient"]

\* Const::cid: store the anon and the meta projection, return the pair.
Const_cid(c, e) ==
  LET anon == ConstAnon_store(AnonOf(c), e)
      meta == ConstMeta_store(MetaOf(c), anon.env)
  IN  [cid |-> [anon |-> anon.cid, meta |-> meta.cid], env |-> meta.env]

\* Const::store with an identifier that is not a function of the content
\* alone: the encoding that is hashed also holds the size of the cache.
Const_store_perCall(c, e) ==
  LET r == Const_cid(c, e)
      cid == [anon |-> r.cid.anon,
              meta |-> Sha3_256(<<EncodeMeta(MetaOf(c)),
                                  Cardinality(DOMAIN e.const_cache)>>)]
  IN  [cid |-> cid,
       env |-> [r.env EXCEPT !.const_cache = MapInsert(@, cid, c)]]

\* Const::store
Const_store(c, e) ==
  LET r == Const_cid(c, e)
  IN  [cid |-> r.cid,
       env |-> [r.env EXCEPT !.const_cache = MapInsert(@, r.cid, c)]]


\* An Env with empty caches (Env::new).
EmptyEnv ==
  [const_cache |-> <<>>, const_anon |-> <<>>, const_meta |-> <<>>,
   expr_cache |-> <<>>]

\* The identifier a constant gets, whatever the store holds.
ConstCidOf(c) == Const_cid(c, EmptyEnv).cid

\* What the store holds under an ExprCid once the expression is stored:
\* the names of its leading Pi binders and the rest (expression::Expr).
StoredExpr(x) ==
  IF x = T1 THEN [binders |-> <<"x">>, rest |-> "Sort"]
  ELSE [binders |-> <<>>, rest |-> "Sort"]

\* Expr::store for an already built expression: add it to expr_cache.
Expr_store(x, e) ==
  [e EXCEPT !.expr_cache = MapInsert(@, x, StoredExpr(x))]

\* parse::utils::get_binders(expr, Some(n)): at most n leading binders.
get_binders(expr, n) ==
  LET k == IF n < Len(expr.binders) THEN n ELSE Len(expr.binders)
  IN  SubSeq(expr.binders, 1, k)

\* Result::Ok, Option<String> and a panic, as results.
Ok(v) == [tag |-> "Ok", val |-> v]
None == [tag |-> "None"]
Some(text) == [tag |-> "Some", text |-> text]
Panic(msg) == [tag |-> "Panic", msg |-> msg]

\* print_constructors: None as soon as one constructor type is not stored.
print_constructors(e, ctors) ==
  IF \E i \in DOMAIN ctors : ctors[i][2] \notin DOMAIN e.expr_cache
  THEN None
  ELSE Some([i \in DOMAIN ctors |->
               <<"|", ctors[i][1], e.expr_cache[ctors[i][2]]>>])

\* Const::pretty
Const_pretty(c, ind, e) ==
  CASE c.kind = "Axiom" ->
         IF c.typ \notin DOMAIN e.expr_cache THEN None
         ELSE Some(<<c.safe, "axiom", c.name, c.lvl, e.expr_cache[c.typ]>>)
    [] c.kind = "Theorem" ->
         IF c.typ \notin DOMAIN e.expr_cache THEN None
         ELSE IF c.expr \notin DOMAIN e.expr_cache THEN None
         ELSE Some(<<"theorem", c.name, c.lvl, e.expr_cache[c.typ],
                     e.expr_cache[c.expr]>>)
    [] c.kind = "Opaque" ->
         IF c.typ \notin DOMAIN e.expr_cache THEN None
         ELSE IF c.expr \notin DOMAIN e.expr_cache THEN None
         ELSE Some(<<c.safe, "opaque", c.name, c.lvl, e.expr_cache[c.typ],
                     e.expr_cache[c.expr]>>)
    [] c.kind = "Definition" -> Some(<<>>)
    [] c.kind = "Inductive" ->
         IF c.typ \notin DOMAIN e.expr_cache THEN None
         ELSE LET bds == get_binders(e.expr_cache[c.typ],
                                     c.params + c.indices)
                  ctors_str == print_constructors(e, c.ctors)
              IN  IF ctors_str = None THEN None
                  ELSE IF c.params > Len(bds)
                  THEN Panic("range end index out of range for slice")
                  ELSE Some(<<c.safe, "inductive", c.recr, c.name, c.lvl,
                              SubSeq(bds, 1, c.params),
                              SubSeq(bds, c.params + 1, Len(bds)),
                              ctors_str.text>>)
    [] c.kind = "Constructor" ->
         IF c.typ \notin DOMAIN e.expr_cache THEN None
         ELSE IF c.ind \notin DOMAIN e.const_cache THEN None
         ELSE Some(<<c.name>>)
    [] c.kind = "Recursor" ->
         IF c.ind \notin DOMAIN e.const_cache THEN None
         ELSE LET i == e.const_cache[c.ind]
              IN  IF i.kind # "Inductive" THEN None
                  ELSE IF i.params # c.params \/ i.indices # c.indices
                  THEN None
                  ELSE Some(<<>>)
    [] c.kind = "Quotient" -> Some(<<>>)

(***************************************************************************)
(* The constants the store operations are called with: for every kind,     *)
(* constants that differ in names only and constants that differ in        *)
(* structure.                                                              *)
(***************************************************************************)
IndConst(name, ctor) ==
  [kind |-> "Inductive", name |-> name, lvl |-> <<"u">>, typ |-> T1,
   params |-> 0, indices |-> 0, ctors |-> <<(<<ctor, T2>>)>>,
   recr |-> FALSE, safe |-> TRUE, refl |-> FALSE, nest |-> FALSE]

IndCid == ConstCidOf(IndConst("a", "a"))

CtorConst(name, lvl) ==
  [kind |-> "Constructor", name |-> name, lvl |-> lvl, ind |-> IndCid,
   typ |-> T2, param |-> 0, field |-> 0, safe |-> TRUE]

CtorCid == ConstCidOf(CtorConst("a", <<"u">>))

\* One constant of the given kind; v picks the structural variant.
Sample(kind, name, lvl, ctor, v) ==
  CASE kind = "Axiom" ->
         [kind |-> "Axiom", name |-> name, lvl |-> lvl, typ |-> T1,
          safe |-> v = 0]
    [] kind = "Theorem" ->
         [kind |-> "Theorem", name |-> name, lvl |-> lvl, typ |-> T1,
          expr |-> IF v = 0 THEN T2 ELSE T1]
    [] kind = "Opaque" ->
         [kind |-> "Opaque", name |-> name, lvl |-> lvl, typ |-> T1,
          expr |-> T2, safe |-> v = 0]
    [] kind = "Definition" ->
         [kind |-> "Definition", name |-> name, lvl |-> lvl, typ |-> T1,
          expr |-> T2, safe |-> IF v = 0 THEN "Safe" ELSE "Unsafe"]
    [] kind = "Inductive" -> [IndConst(name, ctor) EXCEPT !.recr = v # 0]
    [] kind = "Constructor" -> [CtorConst(name, lvl) EXCEPT !.field = v]
    [] kind = "Recursor" ->
         [kind |-> "Recursor", lvl |-> lvl, ind |-> IndCid, typ |-> T1,
          params |-> v, indices |-> 0, motives |-> 1, minors |-> 1,
          rules |-> <<(<<CtorCid, 0, T2>>)>>, k |-> FALSE, safe |-> TRUE]
    [] kind = "Quotient" ->
         [kind |-> "Quotient", qkind |-> IF v = 0 THEN "Type" ELSE "Ind"]

Kinds ==
  {"Axiom", "Theorem", "Opaque", "Definition", "Inductive", "Constructor",
   "Recursor", "Quotient"}

\* Per kind: a base constant and the same under another declaration name;
\* for some kinds also the same under another level-parameter name or
\* another constructor name, and a structurally different one.
SampleConsts ==
  {Sample(k, "a", <<"u">>, "a", 0) : k \in Kinds}
  \cup {Sample(k, "b", <<"u">>, "a", 0) : k \in Kinds}
  \cup {Sample(k, "a", <<"v">>, "a", 0) : k \in {"Axiom", "Recursor"}}
  \cup {Sample(k, "a", <<"u">>, "b", 0) : k \in {"Inductive"}}
  \cup {Sample(k, "a", <<"u">>, "a", 1) :
          k \in {"Axiom", "Definition", "Recursor"}}

(***************************************************************************)
(* Actions of the store.                                                   *)
(***************************************************************************)
\* The heap before any thunk is allocated.
EmptyHeap ==
  [cells |-> <<>>, evals |-> <<>>, borrows |-> <<>>, iota |-> {},
   shifts |-> {}]

Init ==
  /\ env = EmptyEnv
  /\ call = [op |-> "none"]
  /\ ret = None
  /\ heap = EmptyHeap
  /\ aborted = FALSE

\* The bound on the caches: no new constant once one of them is full.
StoreFull == Cardinality(DOMAIN env.const_cache) >= MaxConsts

\* A caller stores an expression (Expr::store).
StoreExpr ==
  /\ ~aborted
  /\ \E x \in ExprCids :
       /\ env' = Expr_store(x, env)
       /\ call' = [op |-> "Expr::store", expr |-> x]
       /\ ret' = Ok(x)
  /\ UNCHANGED <<heap, aborted>>

\* A caller stores a constant (Const::store).
StoreConst ==
  /\ ~aborted
  /\ \E c \in SampleConsts :
       /\ ~StoreFull \/ \E k \in DOMAIN env.const_cache : env.const_cache[k] = c
       /\ env' = Const_store(c, env).env
       /\ call' = [op |-> "Const::store", cnst |-> c,
                   again |-> (call.op = "Const::store" /\ call.cnst = c)]
       /\ ret' = Ok(Const_store(c, env).cid)
  /\ UNCHANGED <<heap, aborted>>

\* A caller renders a constant (Const::pretty).
PrettyConst ==
  /\ ~aborted
  /\ \E c \in SampleConsts, ind \in BOOLEAN :
       /\ call' = [op |-> "Const::pretty", cnst |-> c]
       /\ ret' = Const_pretty(c, ind, env)
       /\ aborted' = (Const_pretty(c, ind, env).tag = "Panic")
  /\ UNCHANGED <<env, heap>>

StoreNext == StoreExpr \/ StoreConst \/ PrettyConst

SpecStore == Init /\ [][StoreNext]_vars

(***************************************************************************)
(*                 PART 2: typechecker/evaluation.rs                       *)
(***************************************************************************)

\* Universe levels (typechecker::universe::Univ).
UZero == [tag |-> "Zero"]
USucc(u) == [tag |-> "Succ", pred |-> u]
UVar(i) == [tag |-> "Var", idx |-> i]
UMax(a, b) == [tag |-> "Max", lhs |-> a, rhs |-> b]
UIMax(a, b) == [tag |-> "IMax", lhs |-> a, rhs |-> b]

RECURSIVE UnivNat(_)
\* The number a variable-free level built from Zero and Succ stands for.
UnivNat(u) == IF u.tag = "Succ" THEN 1 + UnivNat(u.pred) ELSE 0

RECURSIVE UnivIsNat(_)
UnivIsNat(u) ==
  CASE u.tag = "Zero" -> TRUE
    [] u.tag = "Succ" -> UnivIsNat(u.pred)
    [] OTHER -> FALSE

RECURSIVE inst_bulk_reduce(_, _)
\* universe::inst_bulk_reduce: replace every variable by its level in
\* univs, then reduce max and imax over concrete levels.
inst_bulk_reduce(lvl, univs) ==
  CASE lvl.tag = "Zero" -> UZero
    [] lvl.tag = "Succ" -> USucc(inst_bulk_reduce(lvl.pred, univs))
    [] lvl.tag = "Var" ->
         IF lvl.idx < Len(univs) THEN univs[lvl.idx + 1] ELSE lvl
    [] lvl.tag \in {"Max", "IMax"} ->
         LET a == inst_bulk_reduce(lvl.lhs, univs)
             b == inst_bulk_reduce(lvl.rhs, univs)
         IN  IF lvl.tag = "IMax" /\ b = UZero THEN UZero
             ELSE IF UnivIsNat(a) /\ UnivIsNat(b)
             THEN (IF UnivNat(a) >= UnivNat(b) THEN a ELSE b)
             ELSE [tag |-> "Max", lhs |-> a, rhs |-> b]

\* Expressions (typechecker::expression::Expr).
Var(i) == [tag |-> "Var", idx |-> i]
Sort(l) == [tag |-> "Sort", univ |-> l]
Const(c, us) == [tag |-> "Const", cnst |-> c, univs |-> us]
App(f, a) == [tag |-> "App", fun |-> f, arg |-> a]
Lam(b, d, e) == [tag |-> "Lam", bin |-> b, dom |-> d, body |-> e]
Pi(b, d, e) == [tag |-> "Pi", bin |-> b, dom |-> d, cod |-> e]
Let(t, x, e) == [tag |-> "Let", typ |-> t, expr |-> x, body |-> e]
Lit(l) == [tag |-> "Lit", lit |-> l]
Lty(l) == [tag |-> "Lty", lty |-> l]
Fix(e) == [tag |-> "Fix", body |-> e]
Proj(i, e) == [tag |-> "Proj", idx |-> i, expr |-> e]

\* Values (typechecker::value::Value) and neutral heads (Neutral).
VSort(l) == [tag |-> "Sort", univ |-> l]
VLam(b, e, en) == [tag |-> "Lam", bin |-> b, body |-> e, env |-> en]
VPi(b, d, e, en) == [tag |-> "Pi", bin |-> b, dom |-> d, cod |-> e, env |-> en]
VApp(n, as) == [tag |-> "App", neu |-> n, args |-> as]
VLit(l) == [tag |-> "Lit", lit |-> l]
VLty(l) == [tag |-> "Lty", lty |-> l]
FVar(i) == [tag |-> "FVar", idx |-> i]
NConst(c, us) == [tag |-> "Const", cnst |-> c, univs |-> us]

\* Thunks (typechecker::value::Thunk) and environments (Env).
Sus(e, en) == [tag |-> "Sus", expr |-> e, env |-> en]
Res(v) == [tag |-> "Res", val |-> v]
MkEnv(es, us) == [exprs |-> es, univs |-> us]

\* The result of a function that runs on the heap h: a value, or a panic.
Done(v, h) == [tag |-> "Ok", val |-> v, heap |-> h]
Abort(msg, h) == [tag |-> "Panic", msg |-> msg, heap |-> h]

\* `let x = v; K(x)`: v is evaluated once and x is bound to its value.
Then(v, K(_)) == CHOOSE y \in {K(x) : x \in {v}} : TRUE

\* Rc::new(RefCell::new(thunk)): a new cell; its address is its index.
\* evals counts the evaluations of the cell's suspended expression,
\* borrows the shared borrows of its RefCell that are alive.
Alloc(thunk, h) ==
  [ptr |-> Len(h.cells) + 1,
   heap |-> [h EXCEPT !.cells = Append(@, thunk), !.evals = Append(@, 0),
                      !.borrows = Append(@, 0)]]

\* result
result(val, h) == Alloc(Res(val), h)

\* A faulty suspend whose thunk captures an environment that holds the
\* thunk itself.
suspend_selfCapture(expr, en, h) ==
  Alloc(Sus(expr, [en EXCEPT !.exprs = <<Len(h.cells) + 1>> \o @]), h)

\* suspend
suspend(expr, en, h) == Alloc(Sus(expr, en), h)

\* im::Vector::push_front
push_front(v, x) == <<x>> \o v

\* im::Vector::take(n): the first n elements.
take(v, n) == SubSeq(v, 1, IF n < Len(v) THEN n ELSE Len(v))

\* im::Vector::slice(from..), whose result evaluation.rs discards: it
\* removes the elements from index `from` to the end out of v and returns
\* them, so v keeps its first `from` elements.
slice_from(v, from) == IF from >= Len(v) THEN v ELSE SubSeq(v, 1, from)

(***************************************************************************)
(* The constants the evaluator runs on (typechecker::expression::Const,    *)
(* held by Rc pointer; a constant's name stands for its address).          *)
(***************************************************************************)
Prop == Sort(UZero)
Sort1 == Sort(USucc(UZero))
Dflt == "Default"

Rule(n, rhs) == [nfields |-> n, rhs |-> rhs]

\* N.rec M z s n: the recursor of N = zero | succ N, no parameter, no index.
\* In a rule body the constructor fields come first, then s, z, M.
NRecRules ==
  [c \in {"zero", "succ"} |->
     IF c = "zero" THEN Rule(0, Var(1))
     ELSE Rule(1, App(App(Var(1), Var(0)),
                      App(App(App(App(Const("N.rec", <<>>), Var(3)), Var(2)),
                              Var(1)), Var(0))))]

\* I.rec A M m i x: the recursor of a family I A i with one parameter, one
\* index and the constructor mk; in the rule body: m, M, A.
IRecRules == [c \in {"mk"} |-> Rule(0, Var(0))]

Globals ==
  [c \in {"ax", "thm", "opq", "defS", "defU", "defP", "N", "zero", "succ",
          "N.rec", "mk", "I.rec", "quot"} |->
     CASE c = "ax" -> [kind |-> "Axiom"]
       [] c = "thm" -> [kind |-> "Theorem", expr |-> Sort(USucc(UVar(0)))]
       [] c = "opq" -> [kind |-> "Opaque", expr |-> Prop]
       [] c = "defS" ->
            [kind |-> "Definition", safe |-> "Safe",
             expr |-> Lam(Dflt, Sort(UVar(0)), Var(0))]
       [] c = "defU" ->
            [kind |-> "Definition", safe |-> "Unsafe", expr |-> Prop]
       [] c = "defP" ->
            [kind |-> "Definition", safe |-> "Partial", expr |-> Prop]
       [] c = "N" -> [kind |-> "Inductive"]
       [] c \in {"zero", "succ", "mk"} -> [kind |-> "Constructor"]
       [] c = "N.rec" ->
            [kind |-> "Recursor", params |-> 0, motives |-> 1, minors |-> 2,
             indices |-> 0, rules |-> NRecRules]
       [] c = "I.rec" ->
            [kind |-> "Recursor", params |-> 1, motives |-> 1, minors |-> 1,
             indices |-> 1, rules |-> IRecRules]
       [] c = "quot" -> [kind |-> "Quotient"]]

(***************************************************************************)
(* force, eval, eval_const, apply_const.  fuel is the depth of calls left  *)
(* on the stack: a recursion deeper than that overflows the stack.         *)
(***************************************************************************)
RECURSIVE force(_, _, _), eval(_, _, _, _), eval_const(_, _, _, _),
          apply_const(_, _, _, _, _, _)

StackOverflow(h) == Abort("stack overflow", h)

\* A faulty force that returns the value without writing Thunk::Res.
force_write_noCache(thunk, val, h) ==
  Done(val, [h EXCEPT !.borrows[thunk] = @ - 1])

\* force, Thunk::Sus arm after eval returned val: drop the shared borrow,
\* take the mutable one, write Thunk::Res(val).
force_write(thunk, val, h) ==
  LET h1 == [h EXCEPT !.borrows[thunk] = @ - 1]
  IN  IF h1.borrows[thunk] > 0
      THEN Abort("already borrowed: BorrowMutError", h1)
      ELSE Done(val, [h1 EXCEPT !.cells[thunk] = Res(val)])

\* force
force(thunk, h, fuel) ==
  IF fuel = 0 THEN StackOverflow(h)
  ELSE LET cell == h.cells[thunk]
       IN  IF cell.tag = "Res" THEN Done(cell.val, h)
           ELSE Then(eval(cell.expr, cell.env,
                          [h EXCEPT !.borrows[thunk] = @ + 1,
                                    !.evals[thunk] = @ + 1], fuel - 1),
                     LAMBDA r : IF r.tag = "Panic" THEN r
                                ELSE force_write(thunk, r.val, r.heap))

\* A faulty instantiation that leaves the levels as written.
inst_univs_asWritten(cnst_univs, en) == cnst_univs

\* eval, Expr::Const arm and the Neutral::Const arm of Expr::App: the
\* constant's levels instantiated in the universe environment.
inst_univs(cnst_univs, en) ==
  [i \in DOMAIN cnst_univs |-> inst_bulk_reduce(cnst_univs[i], en.univs)]

\* A faulty beta step that pushes the argument behind the environment.
beta_env_pushBack(lam_env, arg) ==
  [lam_env EXCEPT !.exprs = Append(@, arg)]

\* eval, Expr::App arm, Value::Lam: the closure environment with the
\* argument pushed in front.
beta_env(lam_env, arg) ==
  [lam_env EXCEPT !.exprs = push_front(@, arg)]

\* eval, Expr::App arm, Neutral::FVar: the argument pushed on the spine.
app_fvar(var, args, arg) == VApp(var, push_front(args, arg))

\* A faulty application that forces the argument before the call.
eval_app_strict(fun, arg, en, h, fuel) ==
  Then(force(arg, h, fuel - 1), LAMBDA a :
    IF a.tag = "Panic" THEN a
    ELSE IF fun.tag = "Lam"
    THEN eval(fun.body, [fun.env EXCEPT !.exprs = <<arg>> \o @], a.heap,
              fuel - 1)
    ELSE Abort("internal error: entered unreachable code", a.heap))

\* eval, Expr::App arm, once the function is evaluated to fun.
eval_app(fun, arg, en, h, fuel) ==
  CASE fun.tag = "Lam" -> eval(fun.body, beta_env(fun.env, arg), h, fuel - 1)
    [] fun.tag = "App" /\ fun.neu.tag = "FVar" ->
         Done(app_fvar(fun.neu, fun.args, arg), h)
    [] fun.tag = "App" /\ fun.neu.tag = "Const" ->
         apply_const(fun.neu.cnst, inst_univs(fun.neu.univs, en), arg,
                     fun.args, h, fuel - 1)
    [] OTHER -> Abort("internal error: entered unreachable code", h)

\* eval
eval(expr, en, h, fuel) ==
  IF fuel = 0 THEN StackOverflow(h)
  ELSE
  CASE expr.tag = "Var" ->
         IF expr.idx >= Len(en.exprs)
         THEN Abort("index out of bounds", h)
         ELSE force(en.exprs[expr.idx + 1], h, fuel - 1)
    [] expr.tag = "Sort" -> Done(VSort(inst_bulk_reduce(expr.univ, en.univs)), h)
    [] expr.tag = "Const" ->
         eval_const(expr.cnst, inst_univs(expr.univs, en), h, fuel - 1)
    [] expr.tag = "App" ->
         LET arg == suspend(expr.arg, en, h)
         IN  Then(eval(expr.fun, en, arg.heap, fuel - 1),
                  LAMBDA fun :
                    IF fun.tag = "Panic" THEN fun
                    ELSE eval_app(fun.val, arg.ptr, en, fun.heap, fuel))
    [] expr.tag = "Lam" -> Done(VLam(expr.bin, expr.body, en), h)
    [] expr.tag = "Pi" ->
         LET dom == suspend(expr.dom, en, h)
         IN  Done(VPi(expr.bin, dom.ptr, expr.cod, en), dom.heap)
    [] expr.tag = "Let" ->
         LET bound == suspend(expr.expr, en, h)
         IN  eval(expr.body,
                  [en EXCEPT !.exprs = push_front(@, bound.ptr)],
                  bound.heap, fuel - 1)
    [] expr.tag = "Lit" -> Done(VLit(expr.lit), h)
    [] expr.tag = "Lty" -> Done(VLty(expr.lty), h)
    [] expr.tag = "Fix" ->
         LET itself == suspend(expr, en, h)
         IN  eval(expr.body,
                  [en EXCEPT !.exprs = push_front(@, itself.ptr)],
                  itself.heap, fuel - 1)
    [] OTHER -> Abort("not yet implemented", h)

\* eval_const
eval_const(cnst, univs, h, fuel) ==
  LET c == Globals[cnst]
  IN  CASE c.kind = "Theorem" ->
             eval(c.expr, MkEnv(<<>>, univs), h, fuel - 1)
        [] c.kind = "Definition" /\ c.safe = "Safe" ->
             eval(c.expr, MkEnv(<<>>, univs), h, fuel - 1)
        [] c.kind = "Definition" /\ c.safe = "Unsafe" ->
             Abort("Cannot use unsafe definitions inside types", h)
        [] OTHER -> Done(VApp(NConst(cnst, univs), <<>>), h)

\* A faulty neutral that drops the new argument.
neutral_app_dropArg(cnst, univs, arg, args) ==
  VApp(NConst(cnst, univs), args)

\* apply_const, the last two lines: the argument pushed on the spine.
neutral_app(cnst, univs, arg, args) ==
  VApp(NConst(cnst, univs), push_front(args, arg))

\* apply_const, Const::Constructor arm: the bound variables the rule's
\* right-hand side is evaluated with.
iota_exprs(rule, indices, ctor_args, args) ==
  take(ctor_args, rule.nfields) \o slice_from(args, indices)

\* A faulty recursor application that leaves the major premise alone.
apply_rec_noForce(cnst, univs, arg, args, h, fuel) ==
  Done(VApp(NConst(cnst, univs), <<arg>> \o args), h)

\* apply_const, Const::Recursor arm with the spine at major_idx.
apply_rec(cnst, univs, arg, args, h, fuel) ==
  Then(force(arg, h, fuel - 1), LAMBDA major :
    IF major.tag = "Panic" THEN major
    ELSE IF /\ major.val.tag = "App"
            /\ major.val.neu.tag = "Const"
            /\ Globals[major.val.neu.cnst].kind = "Constructor"
    THEN IF major.val.neu.cnst \notin DOMAIN Globals[cnst].rules
         THEN Abort("called Option::unwrap() on a None value", major.heap)
         ELSE LET rule == Globals[cnst].rules[major.val.neu.cnst]
                  en == MkEnv(iota_exprs(rule, Globals[cnst].indices,
                                         major.val.args, args), univs)
              IN  eval(rule.rhs, en,
                       [major.heap EXCEPT !.iota = @ \cup
                          {[cnst |-> cnst, ctor |-> major.val.neu.cnst,
                            ctor_args |-> major.val.args,
                            args |-> args, univs |-> univs, env |-> en]}],
                       fuel - 1)
    ELSE Done(neutral_app(cnst, univs, arg, args), major.heap))

\* apply_const
apply_const(cnst, univs, arg, args, h, fuel) ==
  LET c == Globals[cnst]
  IN  IF fuel = 0 THEN StackOverflow(h)
      ELSE
      CASE c.kind = "Recursor" ->
             IF Len(args) # c.params + c.motives + c.minors + c.indices
             THEN Done(neutral_app(cnst, univs, arg, args), h)
             ELSE apply_rec(cnst, univs, arg, args, h, fuel)
        [] c.kind = "Quotient" -> Abort("not yet implemented", h)
        [] OTHER -> Done(neutral_app(cnst, univs, arg, args), h)

(***************************************************************************)
(* Read-back (the tests module of evaluation.rs).                          *)
(***************************************************************************)

\* read_back_neutral
read_back_neutral(neu) ==
  IF neu.tag = "FVar" THEN Var(neu.idx) ELSE Const(neu.cnst, neu.univs)

\* shift_env, the closure applied to one thunk of the environment: a new
\* cell with the index incremented for a resolved free-variable neutral,
\* the same cell for anything else.
shift_thunk(thunk, h) ==
  LET cell == h.cells[thunk]
  IN  IF cell.tag = "Res" /\ cell.val.tag = "App" /\ cell.val.neu.tag = "FVar"
      THEN Alloc(Res(VApp(FVar(cell.val.neu.idx + 1), cell.val.args)), h)
      ELSE [ptr |-> thunk, heap |-> h]

RECURSIVE shift_from(_, _, _, _)
\* shift_env's iteration over env.exprs from position i on; done holds the
\* thunks collected so far.
shift_from(exprs, i, done, h) ==
  IF i > Len(exprs) THEN [exprs |-> done, heap |-> h]
  ELSE Then(shift_thunk(exprs[i], h),
            LAMBDA t : shift_from(exprs, i + 1, Append(done, t.ptr), t.heap))

\* shift_env; shifts records the environment's thunks before and after,
\* with the cells as they are when shift_env returns.
shift_env(en, h) ==
  Then(shift_from(en.exprs, 1, <<>>, h),
       LAMBDA r :
         [env |-> MkEnv(r.exprs, en.univs),
          heap |-> [r.heap EXCEPT !.shifts = @ \cup
                      {[before |-> en.exprs, after |-> r.exprs,
                        cells |-> r.heap.cells]}]])

\* read_back, Lam and Pi arms: the shifted closure environment with a new
\* thunk for the free variable 0 pushed in front.
binder_env(en, h) ==
  Then(shift_env(en, h), LAMBDA shifted :
    LET arg == Alloc(Res(VApp(FVar(0), <<>>)), shifted.heap)
    IN  [env |-> [shifted.env EXCEPT !.exprs = push_front(@, arg.ptr)],
         heap |-> arg.heap])

RECURSIVE read_back(_, _, _), read_back_spine(_, _, _, _, _)

\* read_back, App arm: args.iter().rev().fold from position i down to 1.
read_back_spine(acc, args, i, h, fuel) ==
  IF i = 0 THEN Done(acc, h)
  ELSE Then(force(args[i], h, fuel - 1), LAMBDA v :
         IF v.tag = "Panic" THEN v
         ELSE Then(read_back(v.val, v.heap, fuel - 1), LAMBDA x :
                IF x.tag = "Panic" THEN x
                ELSE read_back_spine(App(acc, x.val), args, i - 1, x.heap,
                                     fuel)))

\* read_back
read_back(val, h, fuel) ==
  IF fuel = 0 THEN StackOverflow(h)
  ELSE
  CASE val.tag = "Sort" -> Done(Sort(val.univ), h)
    [] val.tag = "App" ->
         read_back_spine(read_back_neutral(val.neu), val.args, Len(val.args),
                         h, fuel)
    [] val.tag = "Lam" ->
         Then(binder_env(val.env, h), LAMBDA lam :
         Then(eval(val.body, lam.env, lam.heap, fuel - 1), LAMBDA v :
           IF v.tag = "Panic" THEN v
           ELSE Then(read_back(v.val, v.heap, fuel - 1), LAMBDA x :
                  IF x.tag = "Panic" THEN x
                  ELSE Done(Lam(val.bin, Sort(UZero), x.val), x.heap))))
    [] val.tag = "Pi" ->
         Then(binder_env(val.env, h), LAMBDA pi :
         Then(force(val.dom, pi.heap, fuel - 1), LAMBDA d :
           IF d.tag = "Panic" THEN d
           ELSE Then(read_back(d.val, d.heap, fuel - 1), LAMBDA dx :
             IF dx.tag = "Panic" THEN dx
             ELSE Then(eval(val.cod, pi.env, dx.heap, fuel - 1), LAMBDA v :
               IF v.tag = "Panic" THEN v
               ELSE Then(read_back(v.val, v.heap, fuel - 1), LAMBDA x :
                 IF x.tag = "Panic" THEN x
                 ELSE Done(Pi(val.bin, dx.val, x.val), x.heap))))))
    [] OTHER -> Abort("not yet implemented", h)

(***************************************************************************)
(* The expressions the evaluator is called with.                           *)
(***************************************************************************)
Sort2 == Sort(USucc(USucc(UZero)))
LamP(b) == Lam(Dflt, Prop, b)
PiP(b) == Pi(Dflt, Prop, b)
Cn(c) == Const(c, <<>>)
App2(f, a, b) == App(App(f, a), b)
App4(f, a, b, c, d) == App(App(App(App(f, a), b), c), d)

\* λ (a : Sort 1) (b : Sort 2) => a, and the same returning b.
SelA == Lam(Dflt, Sort1, Lam(Dflt, Sort2, Var(1)))
SelB == Lam(Dflt, Sort1, Lam(Dflt, Sort2, Var(0)))

\* N.rec applied to its motive and minor premises: one argument short of
\* the major premise.
NRecMinors == App(App2(Cn("N.rec"), Prop, Cn("zero")), Cn("ax"))

\* The inputs of test_read_back, test_lam and test_app_lam.
TestTerms ==
  {PiP(PiP(Var(1))),
   LamP(LamP(Var(1))),
   LamP(LamP(PiP(PiP(App(App2(Var(1), Var(0), Var(3)), Var(2)))))),
   LamP(LamP(App(Var(1), Var(0)))),
   LamP(Var(0)),
   App(Lam(Dflt, Sort1, Var(0)), Prop),
   App2(SelA, Prop, Sort1),
   App2(SelB, Prop, Sort1)}

\* Further closed expressions: redexes under binders, shared thunks,
\* constants of every kind, recursors on constructors and on variables,
\* fixpoints, and the expressions eval has no arm for.
MoreTerms ==
  {Prop,
   Sort(UVar(0)),
   LamP(App(LamP(LamP(Var(1))), Var(0))),
   LamP(App(LamP(PiP(Var(1))), Var(0))),
   Let(Prop, App(LamP(Var(0)), LamP(Var(0))),
       App(Var(0), App(Var(0), Prop))),
   Const("thm", <<UVar(0)>>),
   Const("defS", <<USucc(UZero)>>),
   Cn("defU"), Cn("defP"), Cn("ax"), Cn("opq"), Cn("N"), Cn("quot"),
   Cn("N.rec"), Cn("zero"), NRecMinors,
   App(SelB, Prop),
   App(Cn("ax"), Prop),
   App(Cn("succ"), Cn("zero")),
   App(Cn("quot"), Prop),
   App4(Cn("N.rec"), Prop, Cn("zero"), Cn("ax"), Cn("zero")),
   App(App4(Cn("I.rec"), Sort1, Prop, Cn("zero"), Cn("ax")), Cn("mk")),
   LamP(App4(Cn("N.rec"), Prop, Cn("zero"), Cn("ax"), Var(0))),
   App(LamP(Prop), Fix(Var(0))),
   Fix(Var(0)),
   Lit("nat"), Lty("nat"), Proj(0, Prop),
   App(Prop, Prop)}

\* Expressions for environments with one bound variable: open ones, and
\* constants that unfold or stay neutral.
OpenTerms ==
  {Var(0), App(Var(0), Prop), Const("thm", <<UVar(0)>>), Cn("defS"),
   Cn("ax"), Cn("quot"), Cn("defP"), Cn("N.rec"),
   App4(Cn("N.rec"), Prop, Cn("zero"), Cn("ax"), Var(0))}

\* The environments of a top-level call: no bound variable, or one thunk of
\* the heap; no level, or the level 1.
Envs(h) ==
  {MkEnv(<<>>, <<>>), MkEnv(<<>>, <<USucc(UZero)>>)}
  \cup {MkEnv(<<t>>, <<USucc(UZero)>>) : t \in DOMAIN h.cells}

\* The expressions suspend is called with.
SuspendTerms(en) ==
  IF en.exprs = <<>>
  THEN {Prop, Cn("zero"), App(Cn("succ"), Cn("zero")), Cn("defU"),
        App(LamP(Var(0)), Sort1), NRecMinors}
  ELSE {Var(0), App(Var(0), Prop)}

\* The expressions eval is called with: those the environment is well
\* scoped for (Var(i) is valid only when i is less than the number of
\* thunks in scope); on a heap that holds cells already, the closed ones
\* are the test inputs.
TermsFor(en, h) ==
  IF en.exprs # <<>> THEN OpenTerms
  ELSE IF h.cells = <<>> THEN TestTerms \cup MoreTerms
  ELSE TestTerms

(***************************************************************************)
(* Actions of the evaluator: one per public function.                      *)
(***************************************************************************)

\* What a call leaves in ret: the value, expression or pointer, or a panic.
Returned(r) ==
  IF r.tag = "Panic" THEN Panic(r.msg) ELSE Ok(r.val)

\* The heap a call starts from: the records of the iota steps and of the
\* shifted environments are per call.
Fresh(h) == [h EXCEPT !.iota = {}, !.shifts = {}]

\* Whether the last call returned a Value.
HasValue ==
  /\ call.op \in {"eval", "force", "apply_const"}
  /\ ret.tag = "Ok"

\* Whether the last call was eval or force and returned a Value.
Evaluated ==
  /\ call.op \in {"eval", "force"}
  /\ ret.tag = "Ok"

\* The bound on the heap: no new top-level call once it holds more than
\* MaxHeap cells, no further suspend once it holds MaxHeap.
EvalGuard == ~aborted /\ Len(heap.cells) <= MaxHeap

\* suspend(expr, env)
SuspendCall ==
  /\ EvalGuard
  /\ Len(heap.cells) < MaxHeap
  /\ \E en \in Envs(heap) : \E e \in SuspendTerms(en) :
       /\ en.univs # <<>>
       /\ heap' = suspend(e, en, Fresh(heap)).heap
       /\ ret' = Ok(suspend(e, en, Fresh(heap)).ptr)
       /\ en.exprs = <<>> \/ Len(heap.cells) > 0
       /\ call' = [op |-> "suspend", expr |-> e, env |-> en]
  /\ UNCHANGED <<env, aborted>>

\* eval(expr, env)
EvalCall ==
  /\ EvalGuard
  /\ \E en \in Envs(heap) : \E e \in TermsFor(en, heap) :
       \E r \in {eval(e, en, Fresh(heap), Fuel)} :
           /\ heap' = r.heap
           /\ ret' = Returned(r)
           /\ call' = [op |-> "eval", expr |-> e, env |-> en]
           /\ aborted' = (r.tag = "Panic")
  /\ UNCHANGED env

\* force(thunk)
ForceCall ==
  /\ ~aborted
  /\ \E t \in DOMAIN heap.cells :
       \E r \in {force(t, Fresh(heap), Fuel)} :
           /\ heap' = r.heap
           /\ ret' = Returned(r)
           /\ call' = [op |-> "force", thunk |-> t,
                       was |-> heap.cells[t].tag]
           /\ aborted' = (r.tag = "Panic")
  /\ UNCHANGED env

\* apply_const(cnst, univs, arg, args): the neutral the last call returned
\* is applied to one more thunk.
ApplyConstCall ==
  /\ ~aborted
  /\ Evaluated
  /\ ret.val.tag = "App"
  /\ ret.val.neu.tag = "Const"
  /\ \E arg \in DOMAIN heap.cells :
       \E r \in {apply_const(ret.val.neu.cnst, ret.val.neu.univs, arg,
                               ret.val.args, Fresh(heap), Fuel)} :
           /\ heap' = r.heap
           /\ ret' = Returned(r)
           /\ call' = [op |-> "apply_const", cnst |-> ret.val.neu.cnst,
                       univs |-> ret.val.neu.univs, arg |-> arg,
                       args |-> ret.val.args]
           /\ aborted' = (r.tag = "Panic")
  /\ UNCHANGED env

\* read_back(val) of the value the last call returned.
ReadBackCall ==
  /\ ~aborted
  /\ HasValue
  /\ call.op = "eval" \/ Len(heap.cells) <= MaxHeap
  /\ \E r \in {read_back(ret.val, Fresh(heap), Fuel)} :
         /\ heap' = r.heap
         /\ ret' = Returned(r)
         /\ call' = [op |-> "read_back", val |-> ret.val,
                     src |-> IF call.op = "eval" THEN <<call.expr, call.env>>
                             ELSE <<>>]
         /\ aborted' = (r.tag = "Panic")
  /\ UNCHANGED env

EvalNext ==
  SuspendCall \/ EvalCall \/ ForceCall \/ ApplyConstCall \/ ReadBackCall

SpecEval == Init /\ [][EvalNext]_vars

Next == StoreNext \/ EvalNext

Spec == Init /\ [][Next]_vars

(***************************************************************************)
(* Claims about the store.                                                 *)
(***************************************************************************)

\* A constant with every chosen name blanked: the declaration name, the
\* level-parameter names and the constructor names.
EraseNames(c) ==
  CASE c.kind \in {"Axiom", "Theorem", "Opaque", "Definition", "Constructor"} ->
         [c EXCEPT !.name = "", !.lvl = [i \in DOMAIN c.lvl |-> ""]]
    [] c.kind = "Inductive" ->
         [c EXCEPT !.name = "", !.lvl = [i \in DOMAIN c.lvl |-> ""],
                   !.ctors = [i \in DOMAIN c.ctors |-> <<"", c.ctors[i][2]>>]]
    [] c.kind = "Recursor" -> [c EXCEPT !.lvl = [i \in DOMAIN c.lvl |-> ""]]
    [] c.kind = "Quotient" -> c

\* Two constants of one kind, equal in every structural field, that differ
\* in names.
NamesOnlyDiffer(c1, c2) ==
  /\ c1.kind = c2.kind
  /\ c1 # c2
  /\ EraseNames(c1) = EraseNames(c2)

\* C1: any two stored constants of one kind that differ only in names have
\* identifiers (the keys Const::cid gave them) with the same anon part and
\* different meta parts.
C1_SameAnonDifferentMeta ==
  \A k1, k2 \in DOMAIN env.const_cache :
    NamesOnlyDiffer(env.const_cache[k1], env.const_cache[k2])
      => (k1.anon = k2.anon /\ k1.meta # k2.meta)

\* The entries of a cache that hold a given payload.
EntriesOf(map, v) == {k \in DOMAIN map : map[k] = v}

\* C2: when Const::store(c) is called right after Const::store(c), the
\* second call returns the identifier the first returned, leaves the three
\* caches as they were, and each cache holds exactly one entry for c.
C2_StoreIdempotent ==
  [][\A c \in SampleConsts :
       (call.op = "Const::store" /\ call.cnst = c
          /\ call'.op = "Const::store" /\ call'.cnst = c)
       => /\ ret' = ret
          /\ env' = env
          /\ Cardinality(EntriesOf(env'.const_cache, c)) = 1
          /\ Cardinality(EntriesOf(env'.const_anon, AnonOf(c))) = 1
          /\ Cardinality(EntriesOf(env'.const_meta, MetaOf(c))) = 1]_vars

\* C2 witness: a constant has just been stored for the second time in a
\* row, next to another constant in the caches.
C2_Witness ==
  /\ call.op = "Const::store"
  /\ call.again
  /\ Cardinality(DOMAIN env.const_cache) >= 2

\* The identifiers a constant refers to: expressions and constants.
ExprRefs(c) ==
  CASE c.kind = "Axiom" -> {c.typ}
    [] c.kind \in {"Theorem", "Opaque", "Definition"} -> {c.typ, c.expr}
    [] c.kind = "Inductive" ->
         {c.typ} \cup {c.ctors[i][2] : i \in DOMAIN c.ctors}
    [] c.kind = "Constructor" -> {c.typ}
    [] c.kind = "Recursor" ->
         {c.typ} \cup {c.rules[i][3] : i \in DOMAIN c.rules}
    [] c.kind = "Quotient" -> {}

ConstRefs(c) ==
  CASE c.kind = "Constructor" -> {c.ind}
    [] c.kind = "Recursor" ->
         {c.ind} \cup {c.rules[i][1] : i \in DOMAIN c.rules}
    [] OTHER -> {}

SomeRefAbsent(c, e) ==
  \/ \E x \in ExprRefs(c) : x \notin DOMAIN e.expr_cache
  \/ \E k \in ConstRefs(c) : k \notin DOMAIN e.const_cache

\* C10: whenever Const::pretty is called on a constant with at least one
\* referenced identifier absent from the store, it returns None.
C10_PrettyNoneWhenAbsent ==
  (call.op = "Const::pretty" /\ SomeRefAbsent(call.cnst, env))
    => ret = None

(***************************************************************************)
(* Claims about the evaluator.                                             *)
(***************************************************************************)

\* C3: in every step, each thunk of the heap is still there and its
\* suspended expression has been evaluated at most once; a Resolved thunk
\* keeps its value and is not evaluated again; a thunk that goes from
\* Suspended to Resolved has been evaluated exactly once; force of a
\* Resolved thunk returns the cached value and evaluates nothing; force of
\* a Suspended thunk that returns leaves the thunk Resolved to that value.
C3_EvaluatedAtMostOnce ==
  [][LET old == heap.cells
         new == heap'.cells
         evals == heap'.evals
     IN  /\ \A t \in DOMAIN new : evals[t] <= 1
         /\ Len(new) >= Len(old)
         /\ \A t \in DOMAIN old :
              IF old[t].tag = "Res"
              THEN new[t] = old[t] /\ evals[t] = heap.evals[t]
              ELSE new[t].tag = "Res" => (heap.evals[t] = 0 /\ evals[t] = 1)
         /\ call'.op = "force" =>
              IF old[call'.thunk].tag = "Res"
              THEN /\ ret' = Ok(old[call'.thunk].val)
                   /\ new = old
                   /\ evals = heap.evals
              ELSE ret'.tag = "Ok" =>
                     /\ new[call'.thunk] = Res(ret'.val)
                     /\ evals[call'.thunk] = 1]_vars

\* C3 witness: force has just been called on a thunk that an earlier force
\* had evaluated and left Resolved.
C3_Witness ==
  /\ call.op = "force"
  /\ call.was = "Res"
  /\ heap.evals[call.thunk] = 1
  /\ ret = Ok(heap.cells[call.thunk].val)

\* C4: when eval is called on App(f, a) and f evaluates to a Lam closure,
\* the call returns what eval of the closure's body returns in the closure
\* environment with the thunk suspend(a, env) at index 0, and leaves the
\* same heap; (λ a b => a) Prop (Sort 1) evaluates to Prop and
\* (λ a b => b) Prop (Sort 1) to Sort 1.
C4_BetaLaw ==
  [][/\ (call'.op = "eval" /\ call'.expr.tag = "App") =>
          LET arg == suspend(call'.expr.arg, call'.env, Fresh(heap))
              fun == eval(call'.expr.fun, call'.env, arg.heap, Fuel - 1)
          IN  (fun.tag = "Ok" /\ fun.val.tag = "Lam") =>
                LET r == eval(fun.val.body,
                              MkEnv(<<arg.ptr>> \o fun.val.env.exprs,
                                    fun.val.env.univs),
                              fun.heap, Fuel - 1)
                IN  ret' = Returned(r) /\ heap' = r.heap
     /\ (call'.op = "eval" /\ call'.expr = App2(SelA, Prop, Sort1))
          => ret' = Ok(VSort(UZero))
     /\ (call'.op = "eval" /\ call'.expr = App2(SelB, Prop, Sort1))
          => ret' = Ok(VSort(USucc(UZero)))]_vars

\* C4 witness: eval of (λ a b => b) Prop (Sort 1) has returned Sort 1.
C4_Witness ==
  /\ call.op = "eval"
  /\ call.expr = App2(SelB, Prop, Sort1)
  /\ ret = Ok(VSort(USucc(UZero)))

\* The first n entries of a spine.
FirstN(v, n) == [i \in 1..(IF n < Len(v) THEN n ELSE Len(v)) |-> v[i]]

\* A spine without its first n entries: the spine is kept with the last
\* argument applied in front, so these are the arguments applied before
\* the last n.
DropFirst(v, n) == [i \in 1..(IF n < Len(v) THEN Len(v) - n ELSE 0) |-> v[i + n]]

\* C5: every iota step of the last call evaluated the rule's right-hand
\* side with the first nfields constructor arguments followed by the
\* recursor's spine without its index arguments as bound variables, and
\* with the recursor's level arguments as levels.
C5_IotaEnv ==
  \A r \in heap.iota :
    LET rec == Globals[r.cnst]
        rule == rec.rules[r.ctor]
    IN  /\ r.env.exprs =
             FirstN(r.ctor_args, rule.nfields) \o DropFirst(r.args, rec.indices)
        /\ r.env.univs = r.univs

\* C6: eval of a constant that is a Definition with safety Unsafe returns
\* an error value to its caller and the process goes on.
C6_UnsafeIsRecoverable ==
  (/\ call.op = "eval"
   /\ call.expr.tag = "Const"
   /\ Globals[call.expr.cnst].kind = "Definition"
   /\ Globals[call.expr.cnst].safe = "Unsafe")
    => (ret.tag = "Err" /\ ~aborted)

\* C7: eval of Const(id, U) returns, for a Theorem or a Safe Definition,
\* what eval of its body returns with no bound variable and with U
\* instantiated in the levels of env, whatever the bound variables of env;
\* for an Axiom, Opaque, Inductive, Constructor, Recursor or Quotient it
\* returns the neutral of the constant with these levels and no argument.
C7_DeltaLaw ==
  [][(call'.op = "eval" /\ call'.expr.tag = "Const") =>
       LET id == call'.expr.cnst
           c == Globals[id]
           U == [i \in DOMAIN call'.expr.univs |->
                   inst_bulk_reduce(call'.expr.univs[i], call'.env.univs)]
       IN  /\ (c.kind = "Theorem" \/ (c.kind = "Definition" /\ c.safe = "Safe"))
                => LET r == eval(c.expr, MkEnv(<<>>, U), Fresh(heap), Fuel - 2)
                   IN  ret' = Returned(r) /\ heap' = r.heap
           /\ c.kind \in {"Axiom", "Opaque", "Inductive", "Constructor",
                          "Recursor", "Quotient"}
                => /\ ret' = Ok(VApp(NConst(id, U), <<>>))
                   /\ heap' = Fresh(heap)]_vars

\* C7 witness: eval of the theorem at the level variable 0, in an
\* environment with a bound variable and the level 1, has returned the
\* theorem's body Sort (succ u) at u = 1.
C7_Witness ==
  /\ call.op = "eval"
  /\ call.expr = Const("thm", <<UVar(0)>>)
  /\ call.env.exprs # <<>>
  /\ call.env.univs = <<USucc(UZero)>>
  /\ ret = Ok(VSort(USucc(USucc(UZero))))

\* An application of a Constructor constant.
CtorApp(val) ==
  /\ val.tag = "App"
  /\ val.neu.tag = "Const"
  /\ Globals[val.neu.cnst].kind = "Constructor"

\* λ x => N.rec Prop zero ax x: a recursor on a bound variable.
StuckTerm == LamP(App4(Cn("N.rec"), Prop, Cn("zero"), Cn("ax"), Var(0)))

\* C8: apply_const of a Recursor whose spine holds exactly
\* params+motives+minors+indices arguments, to a major premise that forces
\* to a value other than a Constructor application, returns the neutral of
\* the recursor with the major premise in front of the spine, with the heap
\* that force left; and the recursor on a bound variable reads back as
\* itself.
C8_StuckElimination ==
  [][/\ (/\ call'.op = "apply_const"
         /\ Globals[call'.cnst].kind = "Recursor"
         /\ Len(call'.args) =
              Globals[call'.cnst].params + Globals[call'.cnst].motives
                + Globals[call'.cnst].minors + Globals[call'.cnst].indices) =>
          LET major == force(call'.arg, Fresh(heap), Fuel - 1)
          IN  (major.tag = "Ok" /\ ~CtorApp(major.val)) =>
                /\ ret' = Ok(VApp(NConst(call'.cnst, call'.univs),
                                  <<call'.arg>> \o call'.args))
                /\ heap' = major.heap
     /\ (/\ call'.op = "read_back"
         /\ call'.src # <<>>
         /\ call'.src[1] = StuckTerm)
          => ret' = Ok(StuckTerm)]_vars

\* C8 witness: apply_const has applied N.rec with its three arguments to a
\* thunk Resolved to the free variable 0 and returned the neutral.
C8_Witness ==
  /\ call.op = "apply_const"
  /\ Globals[call.cnst].kind = "Recursor"
  /\ Len(call.args) = 3
  /\ heap.cells[call.arg] = Res(VApp(FVar(0), <<>>))
  /\ ret = Ok(VApp(NConst(call.cnst, call.univs), <<call.arg>> \o call.args))

RECURSIVE lift(_, _, _)
\* e with d added to every variable that is free above c binders.
lift(e, d, c) ==
  CASE e.tag = "Var" -> IF e.idx >= c THEN Var(e.idx + d) ELSE e
    [] e.tag = "App" -> App(lift(e.fun, d, c), lift(e.arg, d, c))
    [] e.tag = "Lam" -> Lam(e.bin, lift(e.dom, d, c), lift(e.body, d, c + 1))
    [] e.tag = "Pi" -> Pi(e.bin, lift(e.dom, d, c), lift(e.cod, d, c + 1))
    [] OTHER -> e

RECURSIVE subst(_, _, _)
\* e with x in place of the variable j.
subst(e, j, x) ==
  CASE e.tag = "Var" -> IF e.idx = j THEN x ELSE e
    [] e.tag = "App" -> App(subst(e.fun, j, x), subst(e.arg, j, x))
    [] e.tag = "Lam" ->
         Lam(e.bin, subst(e.dom, j, x), subst(e.body, j + 1, lift(x, 1, 0)))
    [] e.tag = "Pi" ->
         Pi(e.bin, subst(e.dom, j, x), subst(e.cod, j + 1, lift(x, 1, 0)))
    [] OTHER -> e

\* The contractum of (λ => body) arg.
beta(body, arg) == lift(subst(body, 0, lift(arg, 1, 0)), -1, 0)

RECURSIVE beta_normal(_, _)
\* The beta-normal form of e, de Bruijn indices counted from the innermost
\* binder (n bounds the number of nested reduction steps).
beta_normal(e, n) ==
  CASE e.tag = "App" ->
         Then(beta_normal(e.fun, n), LAMBDA f :
           IF f.tag = "Lam" /\ n > 0
           THEN beta_normal(beta(f.body, e.arg), n - 1)
           ELSE App(f, beta_normal(e.arg, n)))
    [] e.tag = "Lam" ->
         Lam(e.bin, beta_normal(e.dom, n), beta_normal(e.body, n))
    [] e.tag = "Pi" -> Pi(e.bin, beta_normal(e.dom, n), beta_normal(e.cod, n))
    [] OTHER -> e

RECURSIVE ClosedLambdaTerm(_, _)
\* A literal-free, constant-free term with every variable bound within
\* depth binders, every lambda domain Sort 0 and every level closed.
ClosedLambdaTerm(e, depth) ==
  CASE e.tag = "Var" -> e.idx < depth
    [] e.tag = "Sort" -> UnivIsNat(e.univ)
    [] e.tag = "App" ->
         ClosedLambdaTerm(e.fun, depth) /\ ClosedLambdaTerm(e.arg, depth)
    [] e.tag = "Lam" -> e.dom = Prop /\ ClosedLambdaTerm(e.body, depth + 1)
    [] e.tag = "Pi" ->
         ClosedLambdaTerm(e.dom, depth) /\ ClosedLambdaTerm(e.cod, depth + 1)
    [] OTHER -> FALSE

\* C9: read_back of the value eval returned for a closed lambda term in
\* the empty environment is the term's beta-normal form.
C9_ReadBackNormalizes ==
  (/\ call.op = "read_back"
   /\ call.src # <<>>
   /\ call.src[2] = MkEnv(<<>>, <<>>)
   /\ ClosedLambdaTerm(call.src[1], 0))
    => ret = Ok(beta_normal(call.src[1], Fuel))

RECURSIVE ThunkRefs(_, _), ValueRefs(_, _), SeqRefs(_, _, _)

\* The free-variable references held by the thunks from position i on, in
\* order.
SeqRefs(thunks, i, cells) ==
  IF i > Len(thunks) THEN <<>>
  ELSE ThunkRefs(thunks[i], cells) \o SeqRefs(thunks, i + 1, cells)

\* The free-variable references a value holds: the head of a neutral, the
\* thunks of its spine, the closure environment of a Lam or Pi and the
\* domain of a Pi.
ValueRefs(val, cells) ==
  CASE val.tag = "App" ->
         (IF val.neu.tag = "FVar" THEN <<val.neu.idx>> ELSE <<>>)
           \o SeqRefs(val.args, 1, cells)
    [] val.tag = "Lam" -> SeqRefs(val.env.exprs, 1, cells)
    [] val.tag = "Pi" ->
         ThunkRefs(val.dom, cells) \o SeqRefs(val.env.exprs, 1, cells)
    [] OTHER -> <<>>

\* The free-variable references reachable from a thunk: through its value
\* when Resolved, through its captured environment when Suspended.
ThunkRefs(thunk, cells) ==
  IF cells[thunk].tag = "Res" THEN ValueRefs(cells[thunk].val, cells)
  ELSE SeqRefs(cells[thunk].env.exprs, 1, cells)

\* C11: every environment that read_back shifted for a Lam or Pi holds, in
\* each of its thunks, the free-variable references of the thunk it
\* replaces, each one higher: in Resolved neutrals and their spines, in
\* Suspended thunks and in captured closures.
C11_ShiftEnvShiftsAll ==
  \A s \in heap.shifts :
    /\ Len(s.after) = Len(s.before)
    /\ \A i \in DOMAIN s.before :
         ThunkRefs(s.after[i], s.cells) =
           [k \in DOMAIN ThunkRefs(s.before[i], s.cells) |->
              ThunkRefs(s.before[i], s.cells)[k] + 1]

RECURSIVE Occurs(_, _)
\* Whether the variable bound j binders out occurs in e.
Occurs(e, j) ==
  CASE e.tag = "Var" -> e.idx = j
    [] e.tag = "App" -> Occurs(e.fun, j) \/ Occurs(e.arg, j)
    [] e.tag = "Lam" -> Occurs(e.dom, j) \/ Occurs(e.body, j + 1)
    [] e.tag = "Pi" -> Occurs(e.dom, j) \/ Occurs(e.cod, j + 1)
    [] e.tag = "Let" ->
         Occurs(e.typ, j) \/ Occurs(e.expr, j) \/ Occurs(e.body, j + 1)
    [] e.tag = "Fix" -> Occurs(e.body, j + 1)
    [] e.tag = "Proj" -> Occurs(e.expr, j)
    [] OTHER -> FALSE

\* (λ x => Prop) applied to a fixpoint that never returns.
UnusedDiverging == App(LamP(Prop), Fix(Var(0)))

\* C12: suspend adds one Suspended thunk, not evaluated, and changes no
\* other cell; when eval is called on App(f, a), f evaluates to a Lam and
\* the parameter does not occur in the body, the thunk made for a is still
\* Suspended and not evaluated when eval returns; and (λ x => Prop) applied
\* to a diverging fixpoint returns Prop.
C12_Laziness ==
  [][/\ call'.op = "suspend" =>
          /\ heap'.cells = Append(heap.cells, Sus(call'.expr, call'.env))
          /\ heap'.evals = Append(heap.evals, 0)
          /\ ret' = Ok(Len(heap.cells) + 1)
     /\ (call'.op = "eval" /\ call'.expr.tag = "App") =>
          LET arg == Len(heap.cells) + 1
              fun == eval(call'.expr.fun, call'.env,
                          suspend(call'.expr.arg, call'.env, Fresh(heap)).heap,
                          Fuel - 1)
          IN  (fun.tag = "Ok" /\ fun.val.tag = "Lam"
                 /\ ~Occurs(fun.val.body, 0)) =>
                /\ heap'.cells[arg] = Sus(call'.expr.arg, call'.env)
                /\ heap'.evals[arg] = 0
     /\ (call'.op = "eval" /\ call'.expr = UnusedDiverging)
          => ret' = Ok(VSort(UZero))]_vars

\* C12 witness: eval of (λ x => Prop) applied to the diverging fixpoint has
\* returned Prop and the thunk of the fixpoint is Suspended, never
\* evaluated.
C12_Witness ==
  /\ call.op = "eval"
  /\ call.expr = UnusedDiverging
  /\ ret = Ok(VSort(UZero))
  /\ heap.cells[Len(heap.cells)] = Sus(Fix(Var(0)), call.env)
  /\ heap.evals[Len(heap.cells)] = 0

\* C13: apply_const of a constant that is not a Recursor returns the
\* neutral of the constant with the new argument in front of the spine,
\* and does not fail.
C13_OnlyRecursorsReduce ==
  (call.op = "apply_const" /\ Globals[call.cnst].kind # "Recursor")
    => /\ ~aborted
       /\ ret = Ok(VApp(NConst(call.cnst, call.univs),
                        <<call.arg>> \o call.args))

\* The elements of a sequence.
Range(v) == {v[i] : i \in DOMAIN v}

\* The thunks a value points to.
ValuePtrs(val) ==
  CASE val.tag = "App" -> Range(val.args)
    [] val.tag = "Lam" -> Range(val.env.exprs)
    [] val.tag = "Pi" -> {val.dom} \cup Range(val.env.exprs)
    [] OTHER -> {}

\* The thunks a cell points to: those of the environment it captured when
\* Suspended, those of its value when Resolved.
Pointers(cell) ==
  IF cell.tag = "Sus" THEN Range(cell.env.exprs) ELSE ValuePtrs(cell.val)

RECURSIVE ReachFrom(_, _)
\* The thunks reachable from the thunks of S.
ReachFrom(S, cells) ==
  Then(S \cup UNION {Pointers(cells[t]) : t \in S}, LAMBDA more :
    IF more = S THEN S ELSE ReachFrom(more, cells))

\* C14: no thunk is reachable from what it points to, no RefCell is
\* borrowed by two forces at once (not even when the call ends in a
\* panic), no call ends in a borrow panic, and no borrow is alive after a
\* call that returned.
C14_NoReentrantForce ==
  /\ \A t \in DOMAIN heap.cells :
       /\ heap.borrows[t] <= 1
       /\ t \notin ReachFrom(Pointers(heap.cells[t]), heap.cells)
       /\ ~aborted => heap.borrows[t] = 0
  /\ ret # Panic("already borrowed: BorrowMutError")

\* C14 witness: eval of the fixpoint Fix(Var 0) has run out of stack with
\* several forces in progress, each on a Fix thunk of its own.
C14_Witness ==
  /\ call.op = "eval"
  /\ call.expr = Fix(Var(0))
  /\ ret = Panic("stack overflow")
  /\ Cardinality({t \in DOMAIN heap.cells :
                    /\ heap.borrows[t] = 1
                    /\ heap.cells[t].tag = "Sus"
                    /\ heap.cells[t].expr.tag = "Fix"}) >= 2

\* params + motives + minors + indices of a Recursor.
MajorIdx(cnst) ==
  Globals[cnst].params + Globals[cnst].motives + Globals[cnst].minors
    + Globals[cnst].indices

\* A neutral application headed by a Recursor.
RecursorApp(val) ==
  /\ val.tag = "App"
  /\ val.neu.tag = "Const"
  /\ Globals[val.neu.cnst].kind = "Recursor"

\* C15: when eval or apply_const returns a neutral headed by a Recursor,
\* then with at least major_idx + 1 arguments in the spine, the thunk
\* applied at position major_idx is Resolved to a value that is not a
\* Constructor application; with fewer, no thunk of the spine has been
\* forced by the call (those the call made are Suspended, the others are
\* as they were).
C15_RecursorNeutrals ==
  [][(call'.op \in {"eval", "apply_const"} /\ ret'.tag = "Ok"
        /\ RecursorApp(ret'.val)) =>
       LET args == ret'.val.args
           major_idx == MajorIdx(ret'.val.neu.cnst)
       IN  IF Len(args) >= major_idx + 1
           THEN LET major == heap'.cells[args[Len(args) - major_idx]]
                IN  major.tag = "Res" /\ ~CtorApp(major.val)
           ELSE \A i \in DOMAIN args :
                  IF args[i] \in DOMAIN heap.cells
                  THEN /\ heap'.cells[args[i]] = heap.cells[args[i]]
                       /\ heap'.evals[args[i]] = heap.evals[args[i]]
                  ELSE /\ heap'.cells[args[i]].tag = "Sus"
                       /\ heap'.evals[args[i]] = 0]_vars

\* C15 witness: apply_const has returned N.rec with five arguments, one
\* more than its major premise, which is Resolved and not a Constructor
\* application.
C15_Witness ==
  /\ call.op = "apply_const"
  /\ ret.tag = "Ok"
  /\ RecursorApp(ret.val)
  /\ Len(ret.val.args) = MajorIdx(ret.val.neu.cnst) + 2
  /\ heap.cells[ret.val.args[2]].tag = "Res"
  /\ ~CtorApp(heap.cells[ret.val.args[2]].val)

====
